---- MODULE Spec2Model ----
\* A state-machine model of src/script.js: the page's client-side script.
\* Every operation is one browser task (an event dispatch or a timer callback);
\* the browser runs them one at a time, so each is one atomic action.
\*
\* The markup (index.html) is an input of the script: the model draws it in
\* Init (which elements exist, which classes and attributes they carry).
EXTENDS Integers, Sequences, FiniteSets, TLC

\* -------------------------------------------------------------------------
\* Bounds of the model (not program constants)
\* -------------------------------------------------------------------------
MaxClicks == 4
NumCards == 3
MaxScrolls == 3
Tick == 8
MaxTime == 112

\* -------------------------------------------------------------------------
\* Program constants
\* -------------------------------------------------------------------------
MobileBreakpoint == 768
ParallaxLimit == 16
NavLimit == 100
NavLookahead == 200
SpeedTenths == 5

VARIABLES
    dom,            \* which elements the markup holds (querySelector != null)
    markup,         \* the markup's initial classes / attributes / inline style
    loaded,         \* DOMContentLoaded has been dispatched
    listeners,      \* the event listeners registered so far
    errors,         \* the handlers that ended in an uncaught exception
    bgClasses,      \* classList of .hero-background
    ariaPressed,    \* aria-pressed of .nav-toggle-btn ("absent" = no attribute)
    pageTheme,      \* localStorage['pageTheme'] ("absent"); the script never writes it
    toggleHist,     \* history: the states before the last (up to 3) toggles
    navMenuDisplay, \* .nav-menu's inline style.display
    innerWidth,     \* window.innerWidth
    hamburgerClicks,\* history: hamburger clicks handled since page load
    linkClicks,     \* history: nav-link clicks handled since page load
    scrollRequest,  \* the last scrollTo(): [id, found]
    now,            \* the clock, in ms
    scrollY,        \* window.scrollY (= window.pageYOffset)
    inThrottle,     \* the inThrottle flag of each throttled listener
    timers,         \* the pending setTimeout of each throttled listener
    callLog,        \* history: the scroll events dispatched, [t, ran]
    execs,          \* history: how often each throttled function has run
    transform,      \* .hero-background's inline transform (translateY offset)
    activeLinks,    \* the nav links whose classList holds 'active'
    navSeenY,       \* history: the offset the last updateActiveLink read
    parallaxSeenY,  \* history: the offset the last ParallaxEffect.update read
    modalDisplay,   \* #projectModal's inline style.display
    slots,          \* the content of the modal's display slots
    modalArg,       \* history: the argument of the last openModal call
    lastModalOp,    \* history: the last of openModal / close click / backdrop click
    intersecting,   \* which cards intersect the (shrunk) viewport now
    observed,       \* the observer's targets
    pendingInitial, \* observe() was called, the first notification is due
    animation,      \* each card's inline style.animation
    animCount,      \* history: how often each card's animation was set
    everIntersected,\* history: the cards that intersected at some time
    reentered,      \* history: the cards that re-entered once animated
    lastEvent       \* history: the handler that ran last

themeVars == <<bgClasses, ariaPressed, pageTheme, toggleHist>>
menuVars  == <<navMenuDisplay, innerWidth, hamburgerClicks, linkClicks, scrollRequest>>
pageVars  == <<dom, markup, loaded, listeners, errors>>
scrollVars == <<now, scrollY, inThrottle, timers, callLog, execs, transform,
                activeLinks, navSeenY, parallaxSeenY>>
modalVars == <<modalDisplay, slots, modalArg, lastModalOp>>
cardVars  == <<intersecting, observed, pendingInitial, animation, animCount,
               everIntersected, reentered>>
vars == <<pageVars, themeVars, menuVars, scrollVars, cardVars, modalVars, lastEvent>>

\* -------------------------------------------------------------------------
\* Markup
\* -------------------------------------------------------------------------
BgFlags == {"simple-bg", "simple-bg-alt"}
AriaValues == {"absent", "true", "false"}
DomElements == {"bg", "btn", "hamburger", "navMenu", "closeBtn", "modal"}
Widths == {480, MobileBreakpoint, MobileBreakpoint + 1, 1280}

\* The section ids the page has, and the ids the nav links point to.
SectionIds == <<"home", "about", "projects">>
LinkTargets == <<"home", "about", "about", "projects", "blog">>
Links == 1..Len(LinkTargets)

NoScrollRequest == [id |-> "", found |-> FALSE]

\* The offsetTop of the sections, in document order, in the layouts tried.
Layouts == {<<0, 800, 1600>>, <<300, 1600, 800>>}
ScrollOffsets == {0, 600, 850}

Cards == 1..NumCards
ThrottleIds == {"parallax", "nav"}
NoTimer == [deadline |-> -1, by |-> 0]
NoTransform == [num |-> 0, den |-> 0]

\* The modal's display slots: the four openModal fills and the external link
\* the modal shows; each holds the markup's content until it is written.
SlotNames == {"title", "description", "tech", "features", "link"}
MarkupSlots == [n \in SlotNames |-> "markup"]
KnownProjects == {"project1", "project2", "project3"}
ProjectArgs == KnownProjects \cup {"project4"}
ClickTargets == {"closeBtn", "modal", "modalContent", "page"}

HasElementWithId(id) == \E i \in 1..Len(SectionIds) : SectionIds[i] = id

\* -------------------------------------------------------------------------
\* Theme / background toggle                       (script.js 115-132)
\* -------------------------------------------------------------------------
\* The body of toggleHeroBackground once both elements are found: the new
\* classList of the background and the new aria-pressed of the button.
\* Faulty variants, to test that the properties below depend on the code:
\* the second branch without remove('simple-bg'), and without add('simple-bg-alt').
toggleHeroBackgroundNoRemove(classes, aria) ==
    IF "simple-bg-alt" \in classes
    THEN [classes |-> classes \ {"simple-bg-alt"}, aria |-> "false"]
    ELSE IF "simple-bg" \in classes
    THEN [classes |-> classes \cup {"simple-bg-alt"}, aria |-> "true"]
    ELSE [classes |-> classes \cup {"simple-bg"}, aria |-> "true"]

toggleHeroBackgroundSkipsAlt(classes, aria) ==
    IF "simple-bg-alt" \in classes
    THEN [classes |-> classes \ {"simple-bg-alt"}, aria |-> "false"]
    ELSE IF "simple-bg" \in classes
    THEN [classes |-> classes \ {"simple-bg"}, aria |-> "false"]
    ELSE [classes |-> classes \cup {"simple-bg"}, aria |-> "true"]

toggleHeroBackground(classes, aria) ==
    IF "simple-bg-alt" \in classes
    THEN [classes |-> classes \ {"simple-bg-alt"}, aria |-> "false"]
    ELSE IF "simple-bg" \in classes
    THEN [classes |-> (classes \ {"simple-bg"}) \cup {"simple-bg-alt"},
          aria |-> "true"]
    ELSE [classes |-> classes \cup {"simple-bg"}, aria |-> "true"]

LastN(s, n) == IF Len(s) <= n THEN s ELSE SubSeq(s, Len(s) - n + 1, Len(s))

\* A call of toggleHeroBackground() (the toggle button's click handler).
ToggleHeroBackground ==
    /\ IF ~dom.bg \/ ~dom.btn
       THEN UNCHANGED <<bgClasses, ariaPressed, toggleHist>>
       ELSE LET r == toggleHeroBackground(bgClasses, ariaPressed) IN
            /\ bgClasses' = r.classes
            /\ ariaPressed' = r.aria
            /\ toggleHist' = LastN(Append(toggleHist,
                                 [classes |-> bgClasses, aria |-> ariaPressed]), 3)
    /\ lastEvent' = "toggleHeroBackground"
    /\ UNCHANGED <<pageTheme, pageVars, menuVars, scrollVars, cardVars, modalVars>>

\* -------------------------------------------------------------------------
\* Mobile menu and nav-link clicks                 (script.js 102-112, 146-153, 178-208)
\* -------------------------------------------------------------------------
\* Faulty variant: a toggle that only opens.
MobileMenu_toggleAlwaysOpen(display) == "flex"

MobileMenu_toggle(display) == IF display = "flex" THEN "none" ELSE "flex"

MobileMenu_close(display) == "none"

\* The nav-link click listener MobileMenu.init registers (script.js 192-196).
\* (Faulty variant: < in place of <=.)
MenuLinkClickStrict(width, display) ==
    IF width < MobileBreakpoint THEN MobileMenu_close(display) ELSE display

MenuLinkClick(width, display) ==
    IF width <= MobileBreakpoint THEN MobileMenu_close(display) ELSE display

\* scrollTo(sectionId): smooth-scrolls to the element, or logs that there is none.
scrollTo(sectionId) == [id |-> sectionId, found |-> HasElementWithId(sectionId)]

\* A click on the hamburger: MobileMenu.toggle(), which dereferences the panel.
HamburgerClick ==
    /\ "hamburgerClick" \in listeners
    /\ hamburgerClicks < MaxClicks
    /\ hamburgerClicks' = hamburgerClicks + 1
    /\ IF dom.navMenu
       THEN /\ navMenuDisplay' = MobileMenu_toggle(navMenuDisplay)
            /\ errors' = errors
       ELSE /\ navMenuDisplay' = navMenuDisplay
            /\ errors' = errors \cup {"hamburgerClick"}
    /\ lastEvent' = "hamburgerClick"
    /\ UNCHANGED <<dom, markup, loaded, listeners, themeVars, innerWidth,
                   linkClicks, scrollRequest, scrollVars, cardVars, modalVars>>

\* A click on nav link l: the listener of NavigationEffects.init runs first
\* (registered first), then the one of MobileMenu.init when it is registered.
NavLinkClick(l) ==
    /\ "navLinkClick" \in listeners
    /\ linkClicks < MaxClicks
    /\ linkClicks' = linkClicks + 1
    /\ scrollRequest' = scrollTo(LinkTargets[l])
    /\ IF "menuLinkClick" \notin listeners
       THEN UNCHANGED <<navMenuDisplay, errors>>
       ELSE IF dom.navMenu
       THEN /\ navMenuDisplay' = MenuLinkClick(innerWidth, navMenuDisplay)
            /\ errors' = errors
       ELSE /\ navMenuDisplay' = navMenuDisplay
            /\ errors' = IF innerWidth <= MobileBreakpoint
                         THEN errors \cup {"menuLinkClick"} ELSE errors
    /\ lastEvent' = "navLinkClick"
    /\ UNCHANGED <<dom, markup, loaded, listeners, themeVars, innerWidth,
                   hamburgerClicks, scrollVars, cardVars, modalVars>>

\* The user resizes the window.
Resize(w) ==
    /\ w # innerWidth
    /\ innerWidth' = w
    /\ lastEvent' = "resize"
    /\ UNCHANGED <<pageVars, themeVars, navMenuDisplay, hamburgerClicks,
                   linkClicks, scrollRequest, scrollVars, cardVars, modalVars>>

\* -------------------------------------------------------------------------
\* throttle                                        (script.js 20-31)
\* -------------------------------------------------------------------------
\* One call of the function throttle returns, at time t, as the idx-th scroll
\* event: whether func runs, the new inThrottle and the pending timer.
\* (Faulty variant: a wrapper that never raises inThrottle.)
throttleNoFlag(flag, timer, limit, t, idx) ==
    [run |-> TRUE, inThrottle |-> flag, timer |-> timer]

throttle(flag, timer, limit, t, idx) ==
    IF ~flag
    THEN [run |-> TRUE, inThrottle |-> TRUE,
          timer |-> [deadline |-> t + limit, by |-> idx]]
    ELSE [run |-> FALSE, inThrottle |-> flag, timer |-> timer]

\* The timer's callback, () => inThrottle = false: the new inThrottle, and
\* whether func runs (it does not: a dropped call is not replayed).
\* (Faulty variant: a trailing call when the window closes.)
TimerCallbackTrailing(flag) == [inThrottle |-> FALSE, run |-> TRUE]

TimerCallback(flag) == [inThrottle |-> FALSE, run |-> FALSE]

LimitShared(id) == NavLimit

Limit(id) == IF id = "parallax" THEN ParallaxLimit ELSE NavLimit
ScrollListener(id) == IF id = "parallax" THEN "parallaxScroll" ELSE "navScroll"

\* -------------------------------------------------------------------------
\* ParallaxEffect.update                           (script.js 47-52)
\* -------------------------------------------------------------------------
ParallaxEffect_updateClamped(y) ==
    [num |-> (IF y > 600 THEN 600 ELSE y) * SpeedTenths, den |-> 10]

\* translateY(scrollY * 0.5 px), kept as the fraction num/den.
ParallaxEffect_update(y) == [num |-> y * SpeedTenths, den |-> 10]

\* -------------------------------------------------------------------------
\* NavigationEffects.updateActiveLink              (script.js 156-174)
\* -------------------------------------------------------------------------
\* sections.forEach: `current` after the sections i.. have been visited.
\* (Faulty variant: the first section whose threshold is crossed wins.)
RECURSIVE ScanSectionsFirstWins(_, _, _, _)
ScanSectionsFirstWins(i, y, tops, current) ==
    IF i > Len(tops) THEN current
    ELSE ScanSectionsFirstWins(i + 1, y, tops,
            IF y >= tops[i] - NavLookahead /\ current = ""
            THEN SectionIds[i] ELSE current)

RECURSIVE ScanSections(_, _, _, _)
ScanSections(i, y, tops, current) ==
    IF i > Len(tops) THEN current
    ELSE ScanSections(i + 1, y, tops,
            IF y >= tops[i] - NavLookahead THEN SectionIds[i] ELSE current)

\* navLinks.forEach: every link loses 'active', the matching ones get it.
NavigationEffects_updateActiveLink(active, y, tops) ==
    LET current == ScanSections(1, y, tops, "") IN
    (active \ Links) \cup {l \in Links : LinkTargets[l] = current}

\* -------------------------------------------------------------------------
\* Scroll events and timers                        (script.js 44, 144)
\* -------------------------------------------------------------------------
\* The throttled functions that run in this task, at scroll offset y:
\* () => this.update() and () => this.updateActiveLink().
RunFuncs(run, y) ==
    /\ execs' = [id \in ThrottleIds |-> IF run[id] THEN execs[id] + 1 ELSE execs[id]]
    /\ transform' = IF run["parallax"] THEN ParallaxEffect_update(y) ELSE transform
    /\ activeLinks' = IF run["nav"]
                      THEN NavigationEffects_updateActiveLink(activeLinks, y,
                                                              markup.tops)
                      ELSE activeLinks
    /\ navSeenY' = IF run["nav"] THEN y ELSE navSeenY
    /\ parallaxSeenY' = IF run["parallax"] THEN y ELSE parallaxSeenY

\* The user scrolls to offset y: the scroll event is dispatched to the two
\* throttled listeners, ParallaxEffect's first (it is registered first).
Scroll(y) ==
    /\ y # scrollY
    /\ Len(callLog) < MaxScrolls
    /\ scrollY' = y
    /\ LET idx == Len(callLog) + 1
           Call(id) ==
               IF ScrollListener(id) \in listeners
               THEN throttle(inThrottle[id], timers[id], Limit(id), now, idx)
               ELSE [run |-> FALSE, inThrottle |-> inThrottle[id],
                     timer |-> timers[id]]
       IN
       /\ inThrottle' = [id \in ThrottleIds |-> Call(id).inThrottle]
       /\ timers' = [id \in ThrottleIds |-> Call(id).timer]
       /\ RunFuncs([id \in ThrottleIds |-> Call(id).run], y)
       /\ callLog' = IF \E id \in ThrottleIds : ScrollListener(id) \in listeners
                     THEN Append(callLog,
                            [t |-> now,
                             ran |-> [id \in ThrottleIds |-> Call(id).run]])
                     ELSE callLog
    /\ lastEvent' = "scroll"
    /\ UNCHANGED <<now, pageVars, themeVars, menuVars, cardVars, modalVars>>

TimerDue(id) == timers[id] # NoTimer /\ timers[id].deadline <= now

\* A timer set by throttle expires and its callback runs.
TimerFire(id) ==
    /\ TimerDue(id)
    /\ LET r == TimerCallback(inThrottle[id]) IN
       /\ inThrottle' = [inThrottle EXCEPT ![id] = r.inThrottle]
       /\ RunFuncs([i \in ThrottleIds |-> i = id /\ r.run], scrollY)
    /\ timers' = [timers EXCEPT ![id] = NoTimer]
    /\ lastEvent' = "timer"
    /\ UNCHANGED <<now, scrollY, callLog, pageVars, themeVars, menuVars, cardVars,
                   modalVars>>

Min(S) == CHOOSE x \in S : \A z \in S : x <= z

\* Time passes (the clock starts at page load): by one tick, or up to the next
\* timer's deadline when that comes first. A due timer fires before time moves on.
Advance ==
    /\ loaded
    /\ now < MaxTime
    /\ \A id \in ThrottleIds : ~TimerDue(id)
    /\ now' = Min({now + Tick}
                  \cup {timers[id].deadline : id \in {i \in ThrottleIds : timers[i] # NoTimer}})
    /\ lastEvent' = "advance"
    /\ UNCHANGED <<scrollY, inThrottle, timers, callLog, execs, transform,
                   activeLinks, navSeenY, parallaxSeenY, pageVars, themeVars,
                   menuVars, cardVars, modalVars>>

\* -------------------------------------------------------------------------
\* ScrollAnimations                                (script.js 56-83)
\* -------------------------------------------------------------------------
SlideInUp == "slideInUp 0.6s ease-out forwards"

\* The observer's callback on a batch of entries [target, isIntersecting]:
\* the new targets, inline animations and animation counts.
\* (Faulty variant: without observer.unobserve.)
ObserverCallbackNoUnobserve(entries, obs, anim, cnt) ==
    LET hit == {e.target : e \in {x \in entries : x.isIntersecting}} IN
    [observed |-> obs,
     animation |-> [c \in Cards |-> IF c \in hit THEN SlideInUp ELSE anim[c]],
     animCount |-> [c \in Cards |-> IF c \in hit THEN cnt[c] + 1 ELSE cnt[c]]]

ObserverCallback(entries, obs, anim, cnt) ==
    LET hit == {e.target : e \in {x \in entries : x.isIntersecting}} IN
    [observed |-> obs \ hit,
     animation |-> [c \in Cards |-> IF c \in hit THEN SlideInUp ELSE anim[c]],
     animCount |-> [c \in Cards |-> IF c \in hit THEN cnt[c] + 1 ELSE cnt[c]]]

Notify(entries) ==
    LET r == ObserverCallback(entries, observed, animation, animCount) IN
    /\ observed' = r.observed
    /\ animation' = r.animation
    /\ animCount' = r.animCount

\* The first notification after observe(): one entry per target, with the
\* target's present state.
InitialNotification ==
    /\ pendingInitial
    /\ pendingInitial' = FALSE
    /\ Notify({[target |-> c, isIntersecting |-> intersecting[c]] : c \in observed})
    /\ lastEvent' = "intersection"
    /\ UNCHANGED <<intersecting, everIntersected, reentered,
                   pageVars, themeVars, menuVars, scrollVars, modalVars>>

\* The cards in S enter or leave the viewport (as the observer judges it, with
\* its threshold and root margin); the observer reports those it still observes.
IntersectionChange(S) ==
    /\ S # {}
    /\ intersecting' = [c \in Cards |-> IF c \in S THEN ~intersecting[c]
                                        ELSE intersecting[c]]
    /\ everIntersected' = everIntersected \cup {c \in S : ~intersecting[c]}
    /\ reentered' = reentered \cup {c \in S : ~intersecting[c] /\ animation[c] # ""}
    /\ IF "intersection" \in listeners /\ ~pendingInitial
       THEN Notify({[target |-> c, isIntersecting |-> ~intersecting[c]] :
                       c \in S \cap observed})
       ELSE UNCHANGED <<observed, animation, animCount>>
    /\ lastEvent' = "intersection"
    /\ UNCHANGED <<pendingInitial, pageVars, themeVars, menuVars, scrollVars,
                   modalVars>>

\* -------------------------------------------------------------------------
\* Project modal                                   (script.js 211-254)
\* -------------------------------------------------------------------------
\* The slots openModal assigns in each of its three branches. The texts of the
\* three projects differ pairwise in every slot, so a slot's content is
\* identified by the project it belongs to ("markup" while never written).
WrittenSlots == {"title", "description", "tech", "features"}

openModalClearsUnknown(project, s) ==
    IF project \in KnownProjects
    THEN [n \in SlotNames |-> IF n \in WrittenSlots THEN project ELSE s[n]]
    ELSE [n \in SlotNames |-> IF n \in WrittenSlots THEN "" ELSE s[n]]

\* script.js 217-233: the slots after openModal(project).
openModal(project, s) ==
    IF project \in KnownProjects
    THEN [n \in SlotNames |-> IF n \in WrittenSlots THEN project ELSE s[n]]
    ELSE s

\* script.js 238-240: the display closeModal leaves.
closeModal == "none"

\* A call of the global openModal(project) (the project cards call it); with
\* no #projectModal the element lookups give null and the call throws before
\* anything is written.
OpenModal(project) ==
    /\ modalArg' = project
    /\ lastModalOp' = "openModal"
    /\ IF dom.modal
       THEN /\ slots' = openModal(project, slots)
            /\ modalDisplay' = "block"
            /\ UNCHANGED errors
       ELSE /\ errors' = errors \cup {"openModal"}
            /\ UNCHANGED <<slots, modalDisplay>>
    /\ lastEvent' = "openModal"
    /\ UNCHANGED <<dom, markup, loaded, listeners, themeVars, menuVars, scrollVars,
                   cardVars>>

WindowOnClickAnyModalTarget(target, display) ==
    IF target \in {"modal", "modalContent"} THEN closeModal ELSE display

\* script.js 249-253: window.onclick hides the modal only when the click's
\* target is the modal element itself.
WindowOnClick(target, display) ==
    IF target = "modal" THEN closeModal ELSE display

\* script.js 247: the close control's onclick is closeModal.
CloseOnClick(target, display) ==
    IF target = "closeBtn" THEN closeModal ELSE display

\* The name under which the history records a click on the given target.
ClickEvent(target) ==
    CASE target = "closeBtn" -> "closeClick"
      [] target = "modal" -> "backdropClick"
      [] target = "modalContent" -> "contentClick"
      [] OTHER -> "pageClick"

\* A click on the loaded page: the target's own handler runs, then the click
\* bubbles to window.onclick. Only elements of the document can be clicked.
Click(target) ==
    /\ loaded
    /\ target = "closeBtn" => dom.closeBtn
    /\ target \in {"modal", "modalContent"} => dom.modal
    /\ LET afterClose == IF "closeClick" \in listeners
                         THEN CloseOnClick(target, modalDisplay) ELSE modalDisplay
           afterWindow == IF "windowClick" \in listeners
                          THEN WindowOnClick(target, afterClose) ELSE afterClose
           throws == target = "closeBtn" /\ "closeClick" \in listeners /\ ~dom.modal
       IN /\ modalDisplay' = IF dom.modal THEN afterWindow ELSE modalDisplay
          /\ errors' = IF throws THEN errors \cup {"closeClick"} ELSE errors
    /\ lastModalOp' = IF target \in {"closeBtn", "modal"}
                      THEN ClickEvent(target) ELSE lastModalOp
    /\ lastEvent' = ClickEvent(target)
    /\ UNCHANGED <<dom, markup, loaded, listeners, slots, modalArg, themeVars,
                   menuVars, scrollVars, cardVars>>

\* -------------------------------------------------------------------------
\* Page load                                       (script.js 243-277)
\* -------------------------------------------------------------------------
\* First DOMContentLoaded listener: closeBtn.onclick = ... throws on a missing
\* close control, before window.onclick is set.
LoadModalListeners(d) ==
    IF d.closeBtn THEN {"closeClick", "windowClick"} ELSE {}

LoadModalErrors(d) ==
    IF d.closeBtn THEN {} ELSE {"DOMContentLoaded#1"}

LoadEffectsListenersUnguarded(d) ==
    {"parallaxScroll", "intersection", "navScroll", "navLinkClick"}
    \cup (IF d.hamburger THEN {"hamburgerClick", "menuLinkClick"} ELSE {})

\* Second DOMContentLoaded listener. new ParallaxEffect() dereferences the
\* background element in init(): with no such element the listener ends there.
LoadEffectsListeners(d) ==
    IF ~d.bg THEN {}
    ELSE {"parallaxScroll", "intersection", "navScroll", "navLinkClick"}
         \cup (IF d.hamburger THEN {"hamburgerClick", "menuLinkClick"} ELSE {})

LoadEffectsErrors(d) ==
    IF d.bg THEN {} ELSE {"DOMContentLoaded#2"}

\* script.js 270-276: the button's initial aria-pressed.
InitialAria(d, classes, aria) ==
    IF d.bg /\ d.btn
    THEN (IF "simple-bg" \in classes \/ "simple-bg-alt" \in classes
          THEN "true" ELSE "false")
    ELSE aria

PageLoadReappliesTheme ==
    /\ ~loaded
    /\ loaded' = TRUE
    /\ listeners' = listeners \cup LoadModalListeners(dom) \cup LoadEffectsListeners(dom)
    /\ errors' = errors \cup LoadModalErrors(dom) \cup LoadEffectsErrors(dom)
    /\ bgClasses' = {}
    /\ ariaPressed' = InitialAria(dom, bgClasses', ariaPressed)
    /\ observed' = IF "intersection" \in listeners' THEN Cards ELSE observed
    /\ pendingInitial' = ("intersection" \in listeners')
    /\ lastEvent' = "DOMContentLoaded"
    /\ UNCHANGED <<dom, markup, pageTheme, toggleHist, menuVars,
                   scrollVars, intersecting, animation, animCount,
                   everIntersected, reentered, modalVars>>

\* Both DOMContentLoaded listeners, in registration order.
PageLoad ==
    /\ ~loaded
    /\ loaded' = TRUE
    /\ listeners' = listeners \cup LoadModalListeners(dom) \cup LoadEffectsListeners(dom)
    /\ errors' = errors \cup LoadModalErrors(dom) \cup LoadEffectsErrors(dom)
    /\ ariaPressed' = InitialAria(dom, bgClasses, ariaPressed)
    /\ observed' = IF "intersection" \in listeners' THEN Cards ELSE observed
    /\ pendingInitial' = ("intersection" \in listeners')
    /\ lastEvent' = "DOMContentLoaded"
    /\ UNCHANGED <<dom, markup, bgClasses, pageTheme, toggleHist, menuVars,
                   scrollVars, intersecting, animation, animCount,
                   everIntersected, reentered, modalVars>>

\* The user reloads the page: the document is rebuilt from the markup and the
\* script starts afresh; only local storage outlives the document.
Reload ==
    /\ loaded
    /\ loaded' = FALSE
    /\ listeners' = {}
    /\ errors' = {}
    /\ bgClasses' = markup.classes
    /\ ariaPressed' = markup.aria
    /\ toggleHist' = <<>>
    /\ navMenuDisplay' = markup.display
    /\ hamburgerClicks' = 0
    /\ linkClicks' = 0
    /\ scrollRequest' = NoScrollRequest
    /\ inThrottle' = [id \in ThrottleIds |-> FALSE]
    /\ timers' = [id \in ThrottleIds |-> NoTimer]
    /\ callLog' = <<>>
    /\ execs' = [id \in ThrottleIds |-> 0]
    /\ transform' = NoTransform
    /\ activeLinks' = markup.active
    /\ navSeenY' = -1
    /\ parallaxSeenY' = -1
    /\ modalDisplay' = ""
    /\ slots' = MarkupSlots
    /\ modalArg' = ""
    /\ lastModalOp' = "none"
    /\ observed' = {}
    /\ pendingInitial' = FALSE
    /\ animation' = [c \in Cards |-> ""]
    /\ animCount' = [c \in Cards |-> 0]
    /\ everIntersected' = {c \in Cards : intersecting[c]}
    /\ reentered' = {}
    /\ lastEvent' = "reload"
    /\ UNCHANGED <<dom, markup, pageTheme, innerWidth, now, scrollY, intersecting>>

\* -------------------------------------------------------------------------
\* Initial states and specifications
\* -------------------------------------------------------------------------
Markups == [classes : SUBSET BgFlags, aria : AriaValues, display : {"", "none"},
            tops : Layouts, active : {{}, {1}}]

Init ==
    /\ dom \in [DomElements -> BOOLEAN]
    /\ markup \in Markups
    /\ loaded = FALSE
    /\ listeners = {}
    /\ errors = {}
    /\ bgClasses = markup.classes
    /\ ariaPressed = markup.aria
    /\ pageTheme = "absent"
    /\ toggleHist = <<>>
    /\ navMenuDisplay = markup.display
    /\ innerWidth \in Widths
    /\ hamburgerClicks = 0
    /\ linkClicks = 0
    /\ scrollRequest = NoScrollRequest
    /\ now = 0
    /\ scrollY \in ScrollOffsets
    /\ inThrottle = [id \in ThrottleIds |-> FALSE]
    /\ timers = [id \in ThrottleIds |-> NoTimer]
    /\ callLog = <<>>
    /\ execs = [id \in ThrottleIds |-> 0]
    /\ transform = NoTransform
    /\ activeLinks = markup.active
    /\ navSeenY = -1
    /\ parallaxSeenY = -1
    /\ modalDisplay = ""
    /\ slots = MarkupSlots
    /\ modalArg = ""
    /\ lastModalOp = "none"
    /\ intersecting \in [Cards -> BOOLEAN]
    /\ observed = {}
    /\ pendingInitial = FALSE
    /\ animation = [c \in Cards |-> ""]
    /\ animCount = [c \in Cards |-> 0]
    /\ everIntersected = {c \in Cards : intersecting[c]}
    /\ reentered = {}
    /\ lastEvent = "none"

AllPresentExcept(free) == \A e \in DomElements \ free : dom[e]
PlainTheme == markup.classes = {} /\ markup.aria = "false"
PlainMenu == markup.display = "" /\ innerWidth = 1280
PlainNav == markup.tops = <<0, 800, 1600>> /\ markup.active = {} /\ scrollY = 0
PlainCards == \A c \in Cards : ~intersecting[c]

\* The theme toggle on any markup.
InitTheme ==
    Init /\ AllPresentExcept({"bg", "btn"}) /\ PlainMenu /\ PlainNav /\ PlainCards
NextTheme == PageLoad \/ ToggleHeroBackground \/ Reload
SpecTheme == InitTheme /\ [][NextTheme]_vars

\* The mobile menu and the nav links.
InitMenu ==
    /\ Init /\ AllPresentExcept({"bg", "hamburger", "navMenu"})
    /\ PlainTheme /\ PlainNav /\ PlainCards
NextMenu ==
    \/ PageLoad
    \/ HamburgerClick
    \/ \E l \in Links : NavLinkClick(l)
    \/ \E w \in Widths : Resize(w)
SpecMenu == InitMenu /\ [][NextMenu]_vars

\* Scrolling: the two throttled listeners, the parallax and the active link.
InitScroll ==
    /\ Init /\ AllPresentExcept({})
    /\ PlainTheme /\ PlainMenu /\ PlainCards /\ scrollY = 0
NextScroll ==
    \/ PageLoad
    \/ \E y \in ScrollOffsets : Scroll(y)
    \/ \E id \in ThrottleIds : TimerFire(id)
    \/ Advance
SpecScroll == InitScroll /\ [][NextScroll]_vars

\* Scrolling on a page that may lack the hero background.
InitParallax ==
    /\ Init /\ AllPresentExcept({"bg"})
    /\ PlainTheme /\ PlainMenu /\ PlainNav /\ PlainCards
SpecParallax == InitParallax /\ [][NextScroll]_vars

\* The cards' entrance animation.
InitCards ==
    Init /\ AllPresentExcept({"bg"}) /\ PlainTheme /\ PlainMenu /\ PlainNav
NextCards ==
    \/ PageLoad
    \/ InitialNotification
    \/ \E S \in SUBSET Cards : IntersectionChange(S)
SpecCards == InitCards /\ [][NextCards]_vars

\* The theme toggle and the mobile menu on a page that may lack their targets.
InitMissing ==
    /\ Init /\ AllPresentExcept({"bg", "btn", "hamburger", "navMenu"})
    /\ PlainTheme /\ PlainNav /\ PlainCards /\ markup.display = ""
NextMissing == NextMenu \/ ToggleHeroBackground
SpecMissing == InitMissing /\ [][NextMissing]_vars

\* The project modal: the close control and the modal element may be missing.
InitModal ==
    Init /\ AllPresentExcept({"closeBtn", "modal"}) /\ PlainTheme /\ PlainMenu
         /\ PlainNav /\ PlainCards /\ markup.aria = "false"
NextModal ==
    \/ PageLoad
    \/ \E project \in ProjectArgs : OpenModal(project)
    \/ \E target \in ClickTargets : Click(target)
SpecModal == InitModal /\ [][NextModal]_vars

\* All handlers on one complete page, for the properties of the theme flags.
\* To keep the state space small the user stays with the first component
\* touched (menu, scrolling, cards or modal); the theme toggle and the page
\* load interleave freely with it.
MenuUntouched == hamburgerClicks = 0 /\ linkClicks = 0
ScrollUntouched == scrollY = 0 /\ callLog = <<>>
CardsUntouched ==
    /\ \A c \in Cards : ~intersecting[c] /\ animCount[c] = 0
    /\ loaded => pendingInitial
ModalUntouched == lastModalOp = "none"
InitFrame ==
    /\ Init /\ AllPresentExcept({})
    /\ markup.aria = "false" /\ markup.display = "" /\ innerWidth = 480
    /\ PlainNav /\ PlainCards
NextFrame ==
    \/ PageLoad
    \/ ToggleHeroBackground
    \/ /\ ScrollUntouched /\ CardsUntouched /\ ModalUntouched
       /\ HamburgerClick \/ \E l \in Links : NavLinkClick(l)
    \/ /\ MenuUntouched /\ CardsUntouched /\ ModalUntouched
       /\ \E y \in ScrollOffsets : Scroll(y)
    \/ /\ MenuUntouched /\ ScrollUntouched /\ ModalUntouched
       /\ InitialNotification \/ \E S \in SUBSET Cards : IntersectionChange(S)
    \/ /\ MenuUntouched /\ ScrollUntouched /\ CardsUntouched
       /\ \/ \E project \in ProjectArgs : OpenModal(project)
          \/ \E target \in ClickTargets : Click(target)
SpecFrame == InitFrame /\ [][NextFrame]_vars

Next == NextTheme \/ NextMenu \/ NextScroll \/ NextCards \/ NextModal
Spec == Init /\ [][Next]_vars

\* -------------------------------------------------------------------------
\* Claims: theme / background toggle
\* -------------------------------------------------------------------------
\* The mode a set of flags stands for, read the way toggleHeroBackground reads
\* it (script.js 121-131): logos (dark), simple-bg (light), simple-bg-alt (modern).
Mode(classes) ==
    IF "simple-bg-alt" \in classes THEN "modern"
    ELSE IF "simple-bg" \in classes THEN "light"
    ELSE "dark"

StoredMode == IF pageTheme = "absent" THEN "dark" ELSE pageTheme

BothFlags == BgFlags \subseteq bgClasses

\* C3: starting from the dark state (no flag set), one toggle gives light
\* (simple-bg alone, pressed), two give modern (simple-bg-alt alone, pressed)
\* and three give dark again (no flag, not pressed).
C3_ThreeStateCycle ==
    LET n == Len(toggleHist) IN
    /\ (n >= 1 /\ toggleHist[n].classes = {})
          => bgClasses = {"simple-bg"} /\ ariaPressed = "true"
    /\ (n >= 2 /\ toggleHist[n - 1].classes = {})
          => bgClasses = {"simple-bg-alt"} /\ ariaPressed = "true"
    /\ (n >= 3 /\ toggleHist[n - 2].classes = {})
          => bgClasses = {} /\ ariaPressed = "false"

C3_Witness ==
    /\ Len(toggleHist) = 3
    /\ toggleHist[1].classes = {}
    /\ toggleHist[2].classes = {"simple-bg"}
    /\ toggleHist[3].classes = {"simple-bg-alt"}
    /\ bgClasses = {}
    /\ lastEvent = "toggleHeroBackground"

C5_PersistedMatchesMode ==
    (loaded /\ lastEvent = "toggleHeroBackground" /\ dom.bg /\ dom.btn)
        => StoredMode = Mode(bgClasses)

\* C6: after page-load initialisation and after every toggle, with both
\* elements present, aria-pressed is "true" exactly when simple-bg or
\* simple-bg-alt is set, and "false" otherwise.
C6_AriaReflectsMode ==
    (loaded /\ dom.bg /\ dom.btn
        /\ lastEvent \in {"DOMContentLoaded", "toggleHeroBackground"})
        => ariaPressed = (IF bgClasses \cap BgFlags # {} THEN "true" ELSE "false")

\* -------------------------------------------------------------------------
\* Claims: mobile menu
\* -------------------------------------------------------------------------
MenuOpen == navMenuDisplay = "flex"
MenuReady == "hamburgerClick" \in listeners /\ dom.navMenu

\* C9: the menu starts closed; every hamburger click flips it (closed to open,
\* open to closed); so with no link click, it is open exactly when the number
\* of hamburger clicks is odd.
C9_MenuParity ==
    /\ [](MenuReady /\ linkClicks = 0 => (MenuOpen <=> hamburgerClicks % 2 = 1))
    /\ [][(MenuReady /\ hamburgerClicks' = hamburgerClicks + 1)
            => /\ navMenuDisplay' \in {"flex", "none"}
               /\ (navMenuDisplay' = "flex") <=> ~MenuOpen]_vars

C9_Witness ==
    /\ MenuReady
    /\ linkClicks = 0
    /\ hamburgerClicks = 3
    /\ MenuOpen
    /\ lastEvent = "hamburgerClick"

\* C10: a nav-link click closes the menu when the viewport is at most 768px
\* wide at the click, and leaves the panel as it was on a wider viewport.
C10_LinkClickClosesOnNarrow ==
    [][(MenuReady /\ "menuLinkClick" \in listeners /\ linkClicks' = linkClicks + 1)
         => /\ innerWidth <= 768 => navMenuDisplay' = "none"
            /\ innerWidth > 768 => navMenuDisplay' = navMenuDisplay]_vars

\* An open menu closed by a click at exactly 768px (only one hamburger click
\* was made, so nothing but the link click can have closed it).
C10_Witness ==
    /\ MenuReady
    /\ hamburgerClicks = 1
    /\ linkClicks = 1
    /\ lastEvent = "navLinkClick"
    /\ innerWidth = 768
    /\ navMenuDisplay = "none"

\* -------------------------------------------------------------------------
\* Claims: throttle
\* -------------------------------------------------------------------------
Calls == 1..Len(callLog)
Ran(i, id) == callLog[i].ran[id]
Max(S) == CHOOSE x \in S : \A z \in S : z <= x
LastRan(id) == Max({0} \cup {i \in Calls : Ran(i, id)})

\* C1: for each throttled listener, (burst) after an invocation that ran func,
\* no invocation less than `limit` ms later runs it, so a burst inside one
\* window runs func once, for its first invocation; (spaced) the first
\* invocation, and every invocation more than `limit` ms after the previous
\* one, runs func.
C1_ThrottleWindow ==
    \A id \in ThrottleIds :
        /\ \A i \in Calls : \A j \in Calls :
              (i < j /\ Ran(i, id) /\ callLog[j].t - callLog[i].t < Limit(id))
                  => ~Ran(j, id)
        /\ \A j \in Calls :
              (j = 1 \/ callLog[j - 1].t + Limit(id) < callLog[j].t) => Ran(j, id)

\* A burst of two inside one 16 ms window, then a call more than 16 ms later.
C1_Witness ==
    /\ Len(callLog) = 3
    /\ Ran(1, "parallax") /\ ~Ran(2, "parallax") /\ Ran(3, "parallax")
    /\ callLog[1].t < callLog[2].t
    /\ callLog[2].t - callLog[1].t < ParallaxLimit
    /\ callLog[3].t - callLog[2].t > ParallaxLimit
    /\ execs["parallax"] = 2

\* C2: func runs only inside an invocation made while the window is closed,
\* and that invocation opens the window and arms its timer; an invocation
\* made while the window is open changes nothing (it is neither run nor
\* queued); the window closes only when the timer armed by the invocation
\* that opened it expires, `limit` ms after that invocation, and func does
\* not run then.
C2_DroppedNeverReplayed ==
    [][\A id \in ThrottleIds :
        /\ execs'[id] # execs[id]
              => /\ Len(callLog') = Len(callLog) + 1
                 /\ execs'[id] = execs[id] + 1
                 /\ ~inThrottle[id] /\ inThrottle'[id]
                 /\ timers'[id] = [deadline |-> now + Limit(id),
                                   by |-> Len(callLog')]
        /\ (Len(callLog') = Len(callLog) + 1 /\ inThrottle[id])
              => /\ execs'[id] = execs[id]
                 /\ inThrottle'[id]
                 /\ timers'[id] = timers[id]
        /\ (inThrottle[id] /\ ~inThrottle'[id])
              => /\ callLog' = callLog
                 /\ execs'[id] = execs[id]
                 /\ timers[id] # NoTimer
                 /\ timers[id].by = LastRan(id)
                 /\ now = callLog[LastRan(id)].t + Limit(id)
      ]_vars

\* A call was dropped, the window it fell in has closed, and func has still
\* run only once.
C2_Witness ==
    /\ Len(callLog) = 2
    /\ Ran(1, "parallax") /\ ~Ran(2, "parallax")
    /\ ~inThrottle["parallax"]
    /\ lastEvent = "timer"
    /\ execs["parallax"] = 1

\* -------------------------------------------------------------------------
\* Claims: active nav link
\* -------------------------------------------------------------------------
Crossed(y) == {i \in 1..Len(markup.tops) : y >= markup.tops[i] - 200}
LinksTo(id) == {l \in Links : LinkTargets[l] = id}

\* C7: after updateActiveLink has run at offset y, the links carrying 'active'
\* are exactly those that point to the last section in document order with
\* y >= top - 200, and none when no section has that; with tops [0, 800, 1600]
\* and y = 850 they are the links to the section at 800.
C7_ActiveLink ==
    navSeenY # -1 =>
        /\ activeLinks = IF Crossed(navSeenY) = {} THEN {}
                         ELSE LinksTo(SectionIds[Max(Crossed(navSeenY))])
        /\ (markup.tops = <<0, 800, 1600>> /\ navSeenY = 850)
              => activeLinks = LinksTo("about")

C7_Witness ==
    /\ markup.tops = <<0, 800, 1600>>
    /\ markup.active = {1}
    /\ navSeenY = 850
    /\ scrollY = 850
    /\ activeLinks = {2, 3}
    /\ lastEvent = "scroll"

\* -------------------------------------------------------------------------
\* Claims: entrance animation of the cards
\* -------------------------------------------------------------------------
\* C8: every card's animation is set at most once; a card that carries it has
\* intersected at some time and is no longer observed; once the observer has
\* reported, a card that intersects carries the animation (it was applied on
\* the first intersecting entry).
C8_AnimateOnce ==
    \A c \in Cards :
        /\ animCount[c] <= 1
        /\ animCount[c] = 1 <=> animation[c] = SlideInUp
        /\ animation[c] # "" => (c \in everIntersected /\ c \notin observed)
        /\ ("intersection" \in listeners /\ ~pendingInitial /\ intersecting[c])
              => (animation[c] = SlideInUp /\ c \notin observed)

\* A card that was animated, left, and is in the viewport again.
C8_Witness ==
    \E c \in Cards :
        /\ c \in reentered
        /\ intersecting[c]
        /\ animCount[c] = 1
        /\ \E d \in Cards : d \in observed /\ d \notin everIntersected

\* -------------------------------------------------------------------------
\* Project modal
\* -------------------------------------------------------------------------
Visible == modalDisplay = "block"
ModalReady == loaded /\ dom.closeBtn /\ dom.modal

\* C11: after openModal with one of project1, project2, project3 every one of
\* the five display slots (title, description, technology list, feature list,
\* external link) holds that project's content and the modal is visible.
C11_AllFiveSlotsWritten ==
    (dom.modal /\ lastEvent = "openModal" /\ modalArg \in KnownProjects)
        => /\ \A n \in SlotNames : slots[n] = modalArg
           /\ Visible

\* C12: openModal with an identifier outside project1..project3 leaves every
\* display slot as it was and still makes the modal visible.
C12_UnknownKeepsSlots ==
    [][(dom.modal /\ lastEvent' = "openModal" /\ modalArg' \notin KnownProjects)
           => (slots' = slots /\ modalDisplay' = "block")]_vars

\* An unknown identifier opened the modal on the content of an earlier open.
C12_Witness ==
    /\ lastEvent = "openModal"
    /\ modalArg = "project4"
    /\ Visible
    /\ slots.title = "project2"

\* C13: on the loaded page a click on the close control or on the backdrop
\* hides the modal and a click on any other target leaves its visibility as it
\* was; so the modal is visible exactly when the last of openModal, close
\* click and backdrop click was openModal.
C13_VisibleIffLastWasOpen ==
    /\ [](ModalReady => (Visible <=> lastModalOp = "openModal"))
    /\ [][ModalReady
             => /\ lastEvent' \in {"closeClick", "backdropClick"} => ~Visible'
                /\ lastEvent' \in {"contentClick", "pageClick"}
                       => modalDisplay' = modalDisplay]_vars

\* The open modal took a click that was neither on the close control nor on
\* the backdrop, and stayed open.
C13_Witness ==
    /\ ModalReady
    /\ lastEvent = "contentClick"
    /\ lastModalOp = "openModal"
    /\ Visible

\* -------------------------------------------------------------------------
\* Parallax
\* -------------------------------------------------------------------------
\* C14: the translation an update at scroll offset s applies is 0.5 * s,
\* without clamping; so from one update to the next the translation does not
\* decrease when the scroll offset does not decrease.
C14_TranslationIsHalfOffset ==
    /\ [](parallaxSeenY # -1
            => /\ transform.den > 0
               /\ 2 * transform.num = parallaxSeenY * transform.den)
    /\ [][(/\ execs'["parallax"] = execs["parallax"] + 1
           /\ parallaxSeenY # -1
           /\ parallaxSeenY' >= parallaxSeenY)
             => transform'.num * transform.den >= transform.num * transform'.den]_vars

\* A later update ran at the largest offset and applied half of it.
C14_Witness ==
    /\ execs["parallax"] >= 2
    /\ parallaxSeenY = 850
    /\ scrollY = 850
    /\ transform = [num |-> 4250, den |-> 10]

EffectsListeners ==
    {"parallaxScroll", "intersection", "navScroll", "navLinkClick",
     "hamburgerClick", "menuLinkClick"}

\* C15: with the hero background absent, construction of ParallaxEffect
\* completes and its scroll listener is registered on load.
C15_ConstructionCompletes ==
    (loaded /\ ~dom.bg)
        => /\ "parallaxScroll" \in listeners
           /\ "DOMContentLoaded#2" \notin errors

\* C15 (amended): with the hero background absent, construction of
\* ParallaxEffect fails in init() before the scroll listener is registered and
\* ends the load handler, so none of the effects listens and no scroll-driven
\* update ever runs.
C15_ConstructionFails ==
    (loaded /\ ~dom.bg)
        => /\ "DOMContentLoaded#2" \in errors
           /\ listeners \cap EffectsListeners = {}
           /\ \A id \in ThrottleIds : execs[id] = 0
           /\ transform = NoTransform
           /\ callLog = <<>>

\* The page without a hero background was loaded and then scrolled.
C15_Witness ==
    /\ loaded
    /\ ~dom.bg
    /\ lastEvent = "scroll"
    /\ scrollY = 850

\* -------------------------------------------------------------------------
\* Missing DOM targets
\* -------------------------------------------------------------------------
\* C16: toggleHeroBackground with the background element or the toggle button
\* absent changes no class and no attribute, and with the hamburger or the
\* nav-menu panel absent no hamburger click and no nav-link click ends in a
\* failure.
C16_MissingTargetsGuarded ==
    /\ [][(lastEvent' = "toggleHeroBackground" /\ (~dom.bg \/ ~dom.btn))
             => (bgClasses' = bgClasses /\ ariaPressed' = ariaPressed)]_vars
    /\ []((~dom.hamburger \/ ~dom.navMenu)
             => errors \cap {"hamburgerClick", "menuLinkClick"} = {})

\* -------------------------------------------------------------------------
\* Stale scroll effects and independent throttles
\* -------------------------------------------------------------------------
\* What the page shows was computed for an earlier offset than the current one.
StaleParallax ==
    /\ parallaxSeenY # -1
    /\ transform # ParallaxEffect_update(scrollY)
StaleNav ==
    /\ navSeenY # -1
    /\ activeLinks # NavigationEffects_updateActiveLink(activeLinks, scrollY,
                                                        markup.tops)
\* No throttle window is open and no timer is pending.
Quiet == \A id \in ThrottleIds : ~inThrottle[id] /\ timers[id] = NoTimer

\* C17: a dropped scroll event is not made up for: a translation (resp. an
\* active link) that is stale for the current offset stays stale over every
\* step that is not a scroll event, the expiry of the throttle window included.
C17_StaleUntilNextScroll ==
    [][lastEvent' # "scroll"
          => /\ StaleParallax => StaleParallax'
             /\ StaleNav => StaleNav'
             /\ transform' = transform
             /\ activeLinks' = activeLinks]_vars

\* Scrolling has stopped and both windows have elapsed, yet the translation
\* and the active link are those of an earlier offset.
C17_Witness ==
    /\ Quiet
    /\ lastEvent = "advance"
    /\ Len(callLog) >= 2
    /\ now > callLog[Len(callLog)].t + NavLimit
    /\ StaleParallax
    /\ StaleNav

OtherThrottle(id) == CHOOSE o \in ThrottleIds : o # id

\* C18: each scroll subscriber has its own window: on a scroll event a handler
\* runs exactly when its own window is closed, whatever the other's; a dropped
\* call leaves its window and timer alone even when the other handler ran; an
\* expiring timer closes only its own window; and each window lasts its own
\* limit, 16 ms for the parallax handler and 100 ms for the active-link one.
C18_IndependentThrottles ==
    /\ [][\A id \in ThrottleIds :
            LET other == OtherThrottle(id) IN
            /\ Len(callLog') = Len(callLog) + 1
                  => /\ callLog'[Len(callLog')].ran[id] <=> ~inThrottle[id]
                     /\ inThrottle[id]
                           => (inThrottle'[id] /\ timers'[id] = timers[id])
            /\ (lastEvent' = "timer" /\ inThrottle[id] /\ ~inThrottle'[id])
                  => /\ inThrottle'[other] = inThrottle[other]
                     /\ timers'[other] = timers[other]
                     /\ execs' = execs
         ]_vars
    /\ [](\A id \in ThrottleIds :
            timers[id] # NoTimer
               => timers[id].deadline =
                     callLog[timers[id].by].t
                     + (IF id = "parallax" THEN ParallaxLimit ELSE NavLimit))

\* The parallax handler has run three times inside one window of the
\* active-link handler.
C18_Witness ==
    /\ lastEvent = "scroll"
    /\ execs["parallax"] = 3
    /\ execs["nav"] = 1
    /\ inThrottle["nav"]
    /\ timers["nav"].by = 1
    /\ callLog[Len(callLog)].ran = [parallax |-> TRUE, nav |-> FALSE]

\* -------------------------------------------------------------------------
\* Frame of the theme flags
\* -------------------------------------------------------------------------
\* C19: the background-variant flags on the background element change only in
\* a toggleHeroBackground step; scroll events, intersection events, nav-link
\* and hamburger clicks, openModal, closeModal and the page-load
\* initialisation leave them as they are.
C19_OnlyToggleChangesTheme ==
    [][bgClasses' # bgClasses => lastEvent' = "toggleHeroBackground"]_vars

\* On the loaded page the theme was toggled to a non-default variant, and a
\* parallax update then wrote the same element's transform.
C19_Witness ==
    /\ loaded
    /\ toggleHist # <<>>
    /\ bgClasses # {}
    /\ lastEvent = "scroll"
    /\ transform = ParallaxEffect_update(scrollY)
    /\ scrollY > 0

====
